---- MODULE Spec2Model ----
(***************************************************************************)
(* A model of readme_extractor.py: text normalisation, sampling of the     *)
(* input file list, PDF text acquisition with fallback, URL domain         *)
(* extraction and the rendering of the summary charts.                     *)
(*                                                                         *)
(* Each function of the script is a pure function of its arguments (and of *)
(* what the external libraries answer), so each gets a specification of    *)
(* its own: Init draws the arguments from bounded sets and the actions     *)
(* apply the function.  A Python str is a sequence of one-character        *)
(* tokens; a value that may be None is a sequence of at most one element   *)
(* (<<>> for None) or a record with a `kind`.                              *)
(***************************************************************************)
EXTENDS Integers, Sequences, FiniteSets, TLC

VARIABLES
    pc,          \* position of the driver of the function under study
    t,           \* normalize_text: the argument
    out,         \* normalize_text(t)
    out2,        \* normalize_text(normalize_text(t))
    paths,       \* select_sample: the list object passed as `paths`
    args,        \* select_sample: arguments of the latest call
    result,      \* select_sample: value returned by the latest call
    picked,      \* select_sample: positions of `paths` the result was taken from
    rnd,         \* select_sample: state of the latest generator object `rnd`
    first,       \* select_sample: arguments and result of the first call
    primary,     \* pdf_to_text: what pdfminer does for this file
    fallback,    \* pdf_to_text: what PyPDF2 does for this file
    txt,         \* pdf_to_text: returned value (or "RAISED")
    fallbackUsed,\* pdf_to_text: whether _pypdf_extract was called
    url,         \* _domain_of: the argument
    domain,      \* _domain_of: returned value (or "RAISED")
    records,     \* save_visualizations: the in-memory record list
    out_dir,     \* save_visualizations: whether the output directory exists
    plt,         \* save_visualizations: what _try_import_matplotlib returns
    charts       \* save_visualizations: files written by plt.savefig, in order

normVars   == <<t, out, out2>>
sampleVars == <<paths, args, result, picked, rnd, first>>
pdfVars    == <<primary, fallback, txt, fallbackUsed>>
domainVars == <<url, domain>>
vizVars    == <<records, out_dir, plt, charts>>
vars       == <<pc, normVars, sampleVars, pdfVars, domainVars, vizVars>>

\* An optional value: None, or the value v.
None == <<>>
Some(v) == <<v>>

\* The variables of the functions a specification does not exercise.
NormIdle   == t = <<>> /\ out = <<>> /\ out2 = <<>>
NoArgs     == [paths |-> <<>>, max_samples |-> None, mode |-> "first", seed |-> 0]
SampleIdle == /\ paths = <<>> /\ args = NoArgs /\ result = <<>>
              /\ picked = <<>> /\ rnd = None /\ first = None
PdfIdle    == primary = None /\ fallback = None /\ txt = None /\ fallbackUsed = FALSE
DomainIdle == url = <<>> /\ domain = None
VizIdle    == records = <<>> /\ out_dir = FALSE /\ plt = None /\ charts = <<>>

\* All sequences over S of length at most n.
SeqUpTo(S, n) == UNION {[1..k -> S] : k \in 0..n}

(***************************************************************************)
(* normalize_text                                                          *)
(***************************************************************************)
MaxLen == 4

\* One token per character class the five substitutions tell apart:
\* "\r", "\n", "-", the three dash variants – — −, " ", "\t",
\* and any other character.
CR == "\\r"
LF == "\\n"
HYPHEN == "-"
DashVariants == {"u2013", "u2014", "u2212"}
Blank == {" ", "\\t"}
NormChars == {CR, LF, HYPHEN, "u2013", "u2212", " ", "a"}

\* t.replace("\r", "\n")
ReplaceCR(s) == [i \in 1..Len(s) |-> IF s[i] = CR THEN LF ELSE s[i]]

\* re.sub(r"-\n", "", t): one left-to-right pass over non-overlapping matches.
RECURSIVE Dehyphenate(_)
Dehyphenate(s) ==
    IF s = <<>> THEN <<>>
    ELSE IF Len(s) >= 2 /\ s[1] = HYPHEN /\ s[2] = LF
         THEN Dehyphenate(SubSeq(s, 3, Len(s)))
         ELSE <<s[1]>> \o Dehyphenate(Tail(s))

\* re.sub(r"–|—|−", "-", t)
CanonDashes(s) == [i \in 1..Len(s) |-> IF s[i] \in DashVariants THEN HYPHEN ELSE s[i]]

\* Length of the longest prefix of s made of characters of S.
RECURSIVE RunLen(_, _)
RunLen(s, S) == IF s # <<>> /\ s[1] \in S THEN 1 + RunLen(Tail(s), S) ELSE 0

\* re.sub(r"[ \t]+\n", "\n", t): a maximal run of blanks is dropped when a
\* newline follows it, and kept otherwise.
RECURSIVE StripTrailing(_)
StripTrailing(s) ==
    IF s = <<>> THEN <<>>
    ELSE LET n == RunLen(s, Blank) IN
         IF n = 0 THEN <<s[1]>> \o StripTrailing(Tail(s))
         ELSE IF n < Len(s) /\ s[n + 1] = LF
              THEN <<LF>> \o StripTrailing(SubSeq(s, n + 2, Len(s)))
              ELSE SubSeq(s, 1, n) \o StripTrailing(SubSeq(s, n + 1, Len(s)))

\* re.sub(r"\n{3,}", "\n\n", t): a maximal run of three or more newlines
\* becomes two.
RECURSIVE CollapseNewlines(_)
CollapseNewlines(s) ==
    IF s = <<>> THEN <<>>
    ELSE LET n == RunLen(s, {LF}) IN
         IF n = 0 THEN <<s[1]>> \o CollapseNewlines(Tail(s))
         ELSE (IF n >= 3 THEN <<LF, LF>> ELSE SubSeq(s, 1, n))
              \o CollapseNewlines(SubSeq(s, n + 1, Len(s)))

normalize_text(s) ==
    CollapseNewlines(StripTrailing(CanonDashes(Dehyphenate(ReplaceCR(s)))))

NormInit ==
    /\ pc = "norm_start"
    /\ t \in SeqUpTo(NormChars, MaxLen)
    /\ out = <<>> /\ out2 = <<>>
    /\ SampleIdle /\ PdfIdle /\ DomainIdle /\ VizIdle

\* out = normalize_text(t)
Normalize ==
    /\ pc = "norm_start"
    /\ out' = normalize_text(t)
    /\ pc' = "normalized"
    /\ UNCHANGED <<t, out2, sampleVars, pdfVars, domainVars, vizVars>>

\* out2 = normalize_text(out): the function applied to its own output
NormalizeAgain ==
    /\ pc = "normalized"
    /\ out2' = normalize_text(out)
    /\ pc' = "renormalized"
    /\ UNCHANGED <<t, out, sampleVars, pdfVars, domainVars, vizVars>>

NormNext == Normalize \/ NormalizeAgain
SpecNorm == NormInit /\ [][NormNext]_vars

\* s contains a hyphen immediately followed by a newline.
HasHyphenWrap(s) == \E i \in 1..(Len(s) - 1) : s[i] = HYPHEN /\ s[i + 1] = LF

\* C1: normalize_text is idempotent: normalizing the output of normalize_text
\* gives that output back, for every input.
C1_Idempotent == pc = "renormalized" => out2 = out

\* C10: the output of normalize_text never contains a hyphen immediately
\* followed by a newline.
C10_NoHyphenWrap == pc \in {"normalized", "renormalized"} => ~HasHyphenWrap(out)

(***************************************************************************)
(* select_sample                                                           *)
(***************************************************************************)
MaxPaths == 3
MaxSeed == 1

\* The i-th file of the directory listing; a listing of n files.
File(i) == <<"readme", i>>
Listing(n) == [i \in 1..n |-> File(i)]
Modes == {"first", "random"}

\* n.bit_length()
RECURSIVE bit_length(_)
bit_length(n) == IF n = 0 THEN 0 ELSE 1 + bit_length(n \div 2)

RECURSIVE Pow2(_)
Pow2(k) == IF k = 0 THEN 1 ELSE 2 * Pow2(k - 1)

\* The generator behind random.Random: a deterministic function of its state.
\* The Mersenne Twister is stood for by a full-period congruential generator
\* on four bits; getrandbits(k) returns the top k bits of the next state.
RngStep(g) == (5 * g + 3) % 16
getrandbits(g, k) == RngStep(g) \div Pow2(4 - k)

\* random.Random(seed): a generator of its own, whose state the seed fixes.
StaleRandom(seed) == IF rnd = None THEN 0 ELSE rnd[1]
Random(seed) == seed % 16

\* Random._randbelow(n), n > 0: draws n.bit_length() bits until the value is
\* below n.  Returns the value and the generator's state after the draws.
RECURSIVE randbelow(_, _)
randbelow(g, n) ==
    LET r == getrandbits(g, bit_length(n)) IN
    IF r >= n THEN randbelow(RngStep(g), n)
    ELSE [value |-> r, state |-> RngStep(g)]

\* The loop of Random.sample(population, k) over a pool that starts as a copy
\* of the population (the branch taken for populations of at most 21
\* entries): entry j of the pool is selected, and the last entry not yet
\* selected moves into the vacancy.  The pool holds positions of the
\* population, so that the result tells where each entry came from.
RECURSIVE SampleWithReplacement(_, _, _, _, _)
SampleWithReplacement(g, pool, res, i, k) ==
    IF i = k THEN [picked |-> res, rnd |-> Some(g)]
    ELSE LET rb == randbelow(g, Len(pool))
             j == rb.value + 1
         IN SampleWithReplacement(rb.state, pool, Append(res, pool[j]), i + 1, k)

RECURSIVE SampleLoop(_, _, _, _, _)
SampleLoop(g, pool, res, i, k) ==
    IF i = k THEN [picked |-> res, rnd |-> Some(g)]
    ELSE LET n == Len(pool)
             rb == randbelow(g, n - i)
             j == rb.value + 1
         IN SampleLoop(rb.state, [pool EXCEPT ![j] = pool[n - i]],
                       Append(res, pool[j]), i + 1, k)

\* rnd.sample(population, k): the positions selected, in selection order, and
\* the generator's state afterwards.  The population is only read.
sample(g, population, k) ==
    SampleLoop(g, [i \in 1..Len(population) |-> i], <<>>, 0, k)

\* paths[:max_samples]
Suffix(ps, k) == SubSeq(ps, Len(ps) - k + 1, Len(ps))
Prefix(ps, k) == SubSeq(ps, 1, k)

\* The guard of the first return: no limit, or a limit the list fits in.
ReturnsAllUnlessEqual(ps, max_samples) ==
    max_samples = None \/ max_samples[1] <= 0 \/ max_samples[1] > Len(ps)
ReturnsAll(ps, max_samples) ==
    max_samples = None \/ max_samples[1] <= 0 \/ max_samples[1] >= Len(ps)

\* select_sample(paths, max_samples, mode, seed): the list returned, the
\* positions of `paths` its entries come from, and the generator created (the
\* previous one where the call creates none).
select_sample(ps, max_samples, mode, seed) ==
    IF ReturnsAll(ps, max_samples)
    THEN [result |-> ps, picked |-> [i \in 1..Len(ps) |-> i], rnd |-> rnd]
    ELSE IF mode = "first"
    THEN [result |-> Prefix(ps, max_samples[1]),
          picked |-> [i \in 1..max_samples[1] |-> i], rnd |-> rnd]
    ELSE LET s == sample(Random(seed), ps, max_samples[1])
         IN [result |-> [i \in 1..max_samples[1] |-> ps[s.picked[i]]],
             picked |-> s.picked, rnd |-> s.rnd]

SampleInit ==
    /\ pc = "idle"
    /\ paths \in {Listing(n) : n \in 0..MaxPaths}
    /\ args = NoArgs /\ result = <<>> /\ picked = <<>> /\ rnd = None /\ first = None
    /\ NormIdle /\ PdfIdle /\ DomainIdle /\ VizIdle

\* One call select_sample(paths, max_samples, mode, seed).  `args` keeps the
\* arguments as they were passed; `first` keeps the arguments and the result
\* of the first call in mode "random", and whether a later call repeated them.
SelectSample ==
    \E max_samples \in {None} \cup {Some(k) : k \in -1..(Len(paths) + 1)},
       mode \in Modes, seed \in 0..MaxSeed :
        LET a == [paths |-> paths, max_samples |-> max_samples, mode |-> mode,
                  seed |-> seed]
            r == select_sample(paths, max_samples, mode, seed)
        IN /\ pc \in {"idle", "returned"}
           /\ args' = a
           /\ result' = r.result
           /\ picked' = r.picked
           /\ rnd' = r.rnd
           /\ first' = IF mode # "random" THEN first
                       ELSE IF first = None
                       THEN Some([args |-> a, result |-> r.result, repeated |-> FALSE])
                       ELSE IF first[1].args = a
                       THEN Some([first[1] EXCEPT !.repeated = TRUE])
                       ELSE first
           /\ pc' = "returned"
           /\ UNCHANGED <<paths, normVars, pdfVars, domainVars, vizVars>>
           \* `paths` is only read: list(population) copies it, a slice is new

SampleNext == SelectSample
SpecSample == SampleInit /\ [][SampleNext]_vars

\* The latest call had a limit that asks for a proper, non-empty sample.
Sampling == /\ pc = "returned" /\ args.max_samples # None
            /\ 0 < args.max_samples[1] /\ args.max_samples[1] < Len(args.paths)

\* C2: with max_samples None, non-positive, or at least len(paths), the call
\* returns the whole input list, same elements in the same order, in either
\* mode and for any seed.
C2_FullList ==
    (pc = "returned" /\ (\/ args.max_samples = None
                         \/ args.max_samples[1] <= 0
                         \/ args.max_samples[1] >= Len(args.paths)))
        => result = args.paths

C2_Witness ==
    /\ pc = "returned" /\ args.max_samples = Some(Len(args.paths))
    /\ Len(args.paths) >= 2 /\ args.mode = "random" /\ result = args.paths

\* C3: in mode "first" with 0 < max_samples < len(paths), the call returns
\* the first max_samples entries of paths in listing order, whatever the seed.
C3_FirstIsPrefix ==
    (Sampling /\ args.mode = "first")
        => /\ Len(result) = args.max_samples[1]
           /\ \A i \in 1..Len(result) : result[i] = args.paths[i]

C3_Witness ==
    /\ Sampling /\ args.mode = "first" /\ Len(args.paths) = 3
    /\ args.max_samples = Some(2) /\ args.seed > 0
    /\ result = <<File(1), File(2)>>

\* C4: in mode "random", a call with the same paths, max_samples and seed as
\* an earlier call returns what that call returned, whatever calls were made
\* in between.
C4_Reproducible ==
    (pc = "returned" /\ args.mode = "random" /\ first # None /\ first[1].args = args)
        => result = first[1].result

C4_Witness ==
    /\ Sampling /\ args.mode = "random" /\ first # None /\ first[1].args = args
    /\ first[1].repeated /\ result = first[1].result /\ result # Prefix(args.paths, 2)

\* C5: in mode "random" with 0 < max_samples < len(paths), the call returns
\* exactly max_samples entries, each from a position of paths of its own, and
\* the input list is as it was passed.
C5_WithoutReplacement ==
    (Sampling /\ args.mode = "random")
        => /\ Len(result) = args.max_samples[1]
           /\ Len(picked) = Len(result)
           /\ \A i \in 1..Len(picked) :
                 picked[i] \in 1..Len(args.paths) /\ result[i] = args.paths[picked[i]]
           /\ \A i, j \in 1..Len(picked) : i # j => picked[i] # picked[j]
           /\ paths = args.paths

C5_Witness ==
    /\ Sampling /\ args.mode = "random" /\ args.max_samples = Some(2)
    /\ picked[1] # picked[2] /\ picked # <<1, 2>>

(***************************************************************************)
(* pdf_to_text                                                             *)
(***************************************************************************)
MaxRuns == 3
MaxPages == 2
MinChars == 60

\* A text is kept run-length encoded: a sequence of runs of n > 0 characters
\* that are all whitespace (ws) or all non-whitespace.  "" is <<>>.
RunLengths == {1, 59}
Runs == [ws : BOOLEAN, n : RunLengths]
Texts == SeqUpTo(Runs, MaxRuns)
Newline == [ws |-> TRUE, n |-> 1]

\* What a call evaluates to: a str, None, or an exception that propagates.
Str(s) == [kind |-> "str", val |-> s]
NoneValue == [kind |-> "None", val |-> <<>>]
Raises == [kind |-> "raised", val |-> <<>>]

\* bool(v) for a str or None
Truthy(v) == v.kind = "str" /\ v.val # <<>>

\* len(s)
RECURSIVE len(_)
len(s) == IF s = <<>> THEN 0 ELSE s[1].n + len(Tail(s))

\* s.lstrip(), s.strip()
RECURSIVE lstrip(_)
lstrip(s) == IF s # <<>> /\ s[1].ws THEN lstrip(Tail(s)) ELSE s
RECURSIVE rstrip(_)
rstrip(s) == IF s # <<>> /\ s[Len(s)].ws THEN rstrip(SubSeq(s, 1, Len(s) - 1)) ELSE s
strip(s) == rstrip(lstrip(s))

\* What pdfminer does: `imports` is the import attempt that succeeds (0: the
\* library is missing), `outcome` is what extract_text(path) evaluates to.
PrimaryBehaviours ==
    {[imports |-> 0, outcome |-> Raises]}
    \cup [imports : {1, 2}, outcome : {Raises, NoneValue} \cup {Str(s) : s \in Texts}]

\* What PyPDF2 does: whether the import succeeds, whether PdfReader(path) and
\* reader.pages succeed, and what p.extract_text() evaluates to on each page.
PageOutcomes == {Raises, NoneValue, Str(<<>>), Str(<<[ws |-> FALSE, n |-> 59]>>)}
FallbackBehaviours ==
    {[imports |-> FALSE, reader |-> FALSE, pages |-> <<>>],
     [imports |-> TRUE, reader |-> FALSE, pages |-> <<>>]}
    \cup [imports : {TRUE}, reader : {TRUE}, pages : SeqUpTo(PageOutcomes, MaxPages)]

\* _pdfminer_extract(path)
_pdfminer_extract(p) ==
    IF p.imports = 0 THEN Str(<<>>)                     \* extract_text is None
    ELSE IF p.outcome.kind = "raised" THEN Str(<<>>)    \* except Exception
    ELSE p.outcome

\* The list `out` after the loop over reader.pages: a page whose extraction
\* raises adds nothing, one that gives None adds "".
RECURSIVE PageTexts(_)
PageTexts(pages) ==
    IF pages = <<>> THEN <<>>
    ELSE (IF pages[1].kind = "raised" THEN <<>>
          ELSE IF Truthy(pages[1]) THEN <<pages[1].val>> ELSE << <<>> >>)
         \o PageTexts(Tail(pages))

\* "\n".join(out)
RECURSIVE Join(_)
Join(texts) ==
    IF texts = <<>> THEN <<>>
    ELSE IF Len(texts) = 1 THEN texts[1]
    ELSE texts[1] \o <<Newline>> \o Join(Tail(texts))

\* _pypdf_extract(path)
_pypdf_extract_unguarded(f) ==
    IF ~f.imports \/ ~f.reader THEN Raises
    ELSE Str(Join(PageTexts(f.pages)))
_pypdf_extract(f) ==
    IF ~f.imports \/ ~f.reader THEN Str(<<>>)           \* except Exception
    ELSE Str(Join(PageTexts(f.pages)))

\* not txt or len(txt.strip()) < 60
TooShortInclusive(v) == ~Truthy(v) \/ len(strip(v.val)) <= MinChars
TooShort(v) == ~Truthy(v) \/ len(strip(v.val)) < MinChars

\* pdf_to_text(path): the value returned and whether the fallback was called.
pdf_to_text(p, f) ==
    LET txt1 == _pdfminer_extract(p)
        used == txt1.kind # "raised" /\ TooShort(txt1)
        txt2 == IF used THEN _pypdf_extract(f) ELSE txt1
    IN [value |-> IF txt2.kind = "raised" THEN Raises
                  ELSE IF Truthy(txt2) THEN txt2 ELSE Str(<<>>),
        fallbackUsed |-> used]

PdfInit ==
    /\ pc = "pdf_start"
    /\ primary \in PrimaryBehaviours
    /\ fallback \in FallbackBehaviours
    /\ txt = None /\ fallbackUsed = FALSE
    /\ NormIdle /\ SampleIdle /\ DomainIdle /\ VizIdle

\* txt = pdf_to_text(path)
PdfToText ==
    /\ pc = "pdf_start"
    /\ LET r == pdf_to_text(primary, fallback)
       IN txt' = r.value /\ fallbackUsed' = r.fallbackUsed
    /\ pc' = "pdf_done"
    /\ UNCHANGED <<primary, fallback, normVars, sampleVars, domainVars, vizVars>>

PdfNext == PdfToText
SpecPdf == PdfInit /\ [][PdfNext]_vars

\* The primary extractor's output: "" when the library is missing or raises.
PrimaryOutput ==
    IF primary.imports = 0 \/ primary.outcome.kind = "raised" THEN Str(<<>>)
    ELSE primary.outcome
PrimaryEmpty == PrimaryOutput.kind = "None" \/ PrimaryOutput.val = <<>>

\* Number of non-whitespace characters of s.
RECURSIVE NonWhitespace(_)
NonWhitespace(s) ==
    IF s = <<>> THEN 0
    ELSE (IF s[1].ws THEN 0 ELSE s[1].n) + NonWhitespace(Tail(s))

\* The characters of s from its first to its last non-whitespace character.
RECURSIVE Total(_, _)
Total(s, i) == IF i > Len(s) THEN 0 ELSE s[i].n + Total(s, i + 1)
Inner(s) ==
    LET I == {i \in 1..Len(s) : ~s[i].ws}
    IN IF I = {} THEN 0
       ELSE Total(SubSeq(s, CHOOSE i \in I : \A j \in I : i <= j,
                            CHOOSE i \in I : \A j \in I : i >= j), 1)

\* C6 as claimed: the fallback is used exactly when the primary output is
\* empty or holds fewer than 60 non-whitespace characters.
C6_FallbackIffFewNonWhitespace ==
    pc = "pdf_done" =>
        (fallbackUsed <=> (PrimaryEmpty \/ NonWhitespace(PrimaryOutput.val) < 60))

\* C6 as amended: the fallback is used exactly when the primary output is
\* empty (or None) or is shorter than 60 characters once its leading and
\* trailing whitespace is stripped, whitespace inside the text counting; a
\* primary output of at least 60 such characters is returned as it is.
C6_FallbackIffShortStripped ==
    pc = "pdf_done" =>
        /\ fallbackUsed <=> (PrimaryEmpty \/ Inner(PrimaryOutput.val) < 60)
        /\ ~fallbackUsed => txt = PrimaryOutput

C6_Witness ==
    /\ pc = "pdf_done" /\ ~fallbackUsed /\ txt = PrimaryOutput
    /\ Inner(txt.val) >= 60 /\ NonWhitespace(txt.val) < 60

\* C7: pdf_to_text never raises and always returns a string, whatever the two
\* libraries do (missing, raising while reading, raising on a page, empty or
\* None output); the string is empty when both extractors fail.
PrimaryFails == primary.imports = 0 \/ primary.outcome.kind = "raised"
FallbackFails == ~fallback.imports \/ ~fallback.reader
C7_NeverRaises ==
    pc = "pdf_done" =>
        /\ txt.kind = "str"
        /\ (PrimaryFails /\ FallbackFails) => txt.val = <<>>

C7_Witness ==
    /\ pc = "pdf_done" /\ PrimaryFails /\ FallbackFails /\ txt = Str(<<>>)
    /\ primary.imports = 2 /\ fallback.imports

(***************************************************************************)
(* _domain_of                                                              *)
(***************************************************************************)
MaxUrlLen == 4

\* One token per kind of character urlparse tells apart: a lower-case and an
\* upper-case letter (both scheme characters and hexadecimal digits), the
\* separators, the brackets of an IPv6 host, and a blank.
Lower == {"a"}
Upper == {"A"}
UrlChars == Lower \cup Upper \cup {":", "/", "?", "[", "]", " "}
scheme_chars == Lower \cup Upper \cup {"+", "-", "."}

\* Position of the first element of s at or after position i that is in S;
\* 0 when there is none.
RECURSIVE find(_, _, _)
find(s, S, i) ==
    IF i > Len(s) THEN 0 ELSE IF s[i] \in S THEN i ELSE find(s, S, i + 1)

\* s.split(":")
RECURSIVE split(_)
split(s) ==
    LET i == find(s, {":"}, 1)
    IN IF i = 0 THEN <<s>>
       ELSE <<SubSeq(s, 1, i - 1)>> \o split(SubSeq(s, i + 1, Len(s)))

\* Whether ipaddress.ip_address(host) accepts host as an IPv6 address, for a
\* host without "." and "%": three to nine colon-separated parts, at most one
\* empty part inside (the "::"), an empty first or last part only next to
\* it, fewer than eight groups beside a "::" and exactly eight without one,
\* and one to four hexadecimal digits in every group.
IsIPv6(host) ==
    LET parts == split(host)
        n == Len(parts)
        skips == {i \in 2..(n - 1) : parts[i] = <<>>}
        skip == CHOOSE i \in skips : TRUE
        hi == (skip - 1) - (IF parts[1] = <<>> THEN 1 ELSE 0)
        lo == (n - skip) - (IF parts[n] = <<>> THEN 1 ELSE 0)
        hextet(q) == /\ Len(q) \in 1..4
                     /\ \A k \in 1..Len(q) : q[k] \in Lower \cup Upper
    IN /\ n >= 3 /\ n <= 9
       /\ Cardinality(skips) <= 1
       /\ IF skips # {}
          THEN /\ parts[1] = <<>> => skip = 2
               /\ parts[n] = <<>> => skip = n - 1
               /\ 8 - (hi + lo) >= 1
               /\ \A i \in 1..n :
                     (parts[i] # <<>> \/ (i \notin {1, skip, n})) => hextet(parts[i])
          ELSE n = 8 /\ \A i \in 1..n : hextet(parts[i])

\* urlparse(url): whether it raises ValueError, and the netloc it finds.
urlparse(u) ==
    LET \* url.lstrip(_WHATWG_C0_CONTROL_OR_SPACE)
        u1 == SubSeq(u, RunLen(u, {" "}) + 1, Len(u))
        \* a scheme: letters up to the first ":", which is not the first character
        i == find(u1, {":"}, 1)
        hasScheme == /\ i > 1 /\ u1[1] \in Lower \cup Upper
                     /\ \A k \in 1..(i - 1) : u1[k] \in scheme_chars
        u2 == IF hasScheme THEN SubSeq(u1, i + 1, Len(u1)) ELSE u1
        \* _splitnetloc(url, 2): up to the first of "/", "?", "#"
        hasNetloc == Len(u2) >= 2 /\ u2[1] = "/" /\ u2[2] = "/"
        delim == find(u2, {"/", "?", "#"}, 3)
        netloc == IF ~hasNetloc THEN <<>>
                  ELSE SubSeq(u2, 3, IF delim = 0 THEN Len(u2) ELSE delim - 1)
        open == find(netloc, {"["}, 1)
        close == find(netloc, {"]"}, 1)
        \* netloc.partition("[")[2].partition("]")[0]
        rest == SubSeq(netloc, open + 1, Len(netloc))
        end == find(rest, {"]"}, 1)
        bracketed_host == IF end = 0 THEN rest ELSE SubSeq(rest, 1, end - 1)
    IN [raised |-> \/ (open # 0 /\ close = 0) \/ (close # 0 /\ open = 0)
                   \/ (open # 0 /\ close # 0 /\ ~IsIPv6(bracketed_host)),
        netloc |-> netloc]

\* netloc.lower()
lower(s) == [k \in 1..Len(s) |-> IF s[k] \in Upper THEN "a" ELSE s[k]]

\* _domain_of(url)
_domain_of_unguarded(u) ==
    LET r == urlparse(u) IN IF r.raised THEN Raises ELSE Str(lower(r.netloc))
_domain_of(u) ==
    LET r == urlparse(u)
    IN IF r.raised THEN Str(<<>>)                       \* except Exception
       ELSE Str(lower(r.netloc))

DomainInit ==
    /\ pc = "url_start"
    /\ url \in SeqUpTo(UrlChars, MaxUrlLen)
    /\ domain = None
    /\ NormIdle /\ SampleIdle /\ PdfIdle /\ VizIdle

\* domain = _domain_of(url)
DomainOf ==
    /\ pc = "url_start"
    /\ domain' = _domain_of(url)
    /\ pc' = "url_done"
    /\ UNCHANGED <<url, normVars, sampleVars, pdfVars, vizVars>>

DomainNext == DomainOf
SpecDomain == DomainInit /\ [][DomainNext]_vars

\* C9: _domain_of never raises and returns a string: the empty string when
\* the URL is malformed (urlparse raises, or finds no network location), and
\* the lower-cased network location otherwise.
C9_DomainNeverRaises ==
    pc = "url_done" =>
        /\ domain.kind = "str"
        /\ \A k \in 1..Len(domain.val) : domain.val[k] \notin Upper
        /\ IF urlparse(url).raised \/ urlparse(url).netloc = <<>>
           THEN domain.val = <<>>
           ELSE /\ Len(domain.val) = Len(urlparse(url).netloc)
                /\ \A k \in 1..Len(domain.val) :
                      domain.val[k] = IF urlparse(url).netloc[k] \in Upper
                                      THEN "a" ELSE urlparse(url).netloc[k]

C9_Witness ==
    /\ pc = "url_done" /\ urlparse(url).raised /\ domain = Str(<<>>)

(***************************************************************************)
(* save_visualizations                                                     *)
(***************************************************************************)
MaxRecords == 2

\* Characters of a time mention, as the year pattern tells them apart.
Digits == {"0", "1", "2", "9"}
WordChars == Digits \cup {"x", "_"}
DigitValue(c) == CASE c = "0" -> 0 [] c = "1" -> 1 [] c = "2" -> 2 [] c = "9" -> 9

\* Whether \b((?:19|20)\d{2})\b matches at position i of s.
YearAt(s, i) ==
    /\ i + 3 <= Len(s)
    /\ (i = 1 \/ s[i - 1] \notin WordChars)
    /\ <<s[i], s[i + 1]>> \in {<<"1", "9">>, <<"2", "0">>}
    /\ s[i + 2] \in Digits /\ s[i + 3] \in Digits
    /\ (i + 4 > Len(s) \/ s[i + 4] \notin WordChars)

\* [int(y2) for y2 in re.findall(r"\b((?:19|20)\d{2})\b", s)], from position i
RECURSIVE FindYears(_, _)
FindYears(s, i) ==
    IF i > Len(s) THEN <<>>
    ELSE IF YearAt(s, i)
    THEN <<1000 * DigitValue(s[i]) + 100 * DigitValue(s[i + 1])
           + 10 * DigitValue(s[i + 2]) + DigitValue(s[i + 3])>>
         \o FindYears(s, i + 4)
    ELSE FindYears(s, i + 1)

\* r.get(field) or []
OrEmpty(v) == IF v = None THEN <<>> ELSE v[1]

\* str(bool(v))
StrBool(b) == IF b THEN "True" ELSE "False"

\* A Counter is a function from the keys counted to their counts.
Counter == <<>>
Inc(c, k) == IF k \in DOMAIN c THEN [c EXCEPT ![k] = @ + 1] ELSE c @@ (k :> 1)

\* counter[k] += 1 for every k of keys that is not `empty` (the falsy value)
RECURSIVE Tally(_, _, _)
Tally(c, keys, empty) ==
    IF keys = <<>> THEN c
    ELSE Tally(IF keys[1] = empty THEN c ELSE Inc(c, keys[1]), Tail(keys), empty)

\* The concatenation of the lists of a list, in order.
RECURSIVE Flatten(_)
Flatten(lists) == IF lists = <<>> THEN <<>> ELSE lists[1] \o Flatten(Tail(lists))

AllYears(times) == Flatten([i \in 1..Len(times) |-> FindYears(times[i], 1)])

\* The counters and lists after the loop over the records.
source_counter(recs) ==
    Tally(Counter, Flatten([i \in 1..Len(recs) |-> OrEmpty(recs[i].sources_mentions)]), "")
dataset_counter(recs) ==
    Tally(Counter, Flatten([i \in 1..Len(recs) |-> OrEmpty(recs[i].dataset_candidates)]), "")
domain_counter(recs) ==
    LET f(r) == [i \in 1..Len(OrEmpty(r.urls)) |-> _domain_of(OrEmpty(r.urls)[i]).val]
    IN Tally(Counter, Flatten([i \in 1..Len(recs) |-> f(recs[i])]), <<>>)
url_count_list(recs) == [i \in 1..Len(recs) |-> Len(OrEmpty(recs[i].urls))]
year_list(recs) ==
    Flatten([i \in 1..Len(recs) |-> AllYears(OrEmpty(recs[i].time_mentions))])
needs_review_counter(recs) ==
    Tally(Counter, [i \in 1..Len(recs) |-> StrBool(recs[i].needs_review)], "")
has_decl_counter(recs) ==
    Tally(Counter, [i \in 1..Len(recs) |-> StrBool(recs[i].has_declaration)], "")
has_avail_counter(recs) ==
    Tally(Counter, [i \in 1..Len(recs) |-> StrBool(recs[i].availability_section_found)], "")

\* One plt.savefig: the metric charted and the file written.
Chart(metric, file) == [metric |-> metric, file |-> file]

\* save_visualizations(records, out_dir): the charts saved, in order.  Nothing
\* is drawn without matplotlib.
save_visualizations(recs, pyplot) ==
    IF pyplot = None THEN <<>>
    ELSE (IF source_counter(recs) # Counter
          THEN <<Chart("sources", "sources_top20.png")>> ELSE <<>>)
      \o (IF dataset_counter(recs) # Counter
          THEN <<Chart("dataset_candidates", "datasets_top20.png")>> ELSE <<>>)
      \o (IF domain_counter(recs) # Counter
          THEN <<Chart("url_domains", "domains_top20.png")>> ELSE <<>>)
      \o (IF url_count_list(recs) # <<>>
          THEN <<Chart("urls_per_file", "urls_per_file_hist.png")>> ELSE <<>>)
      \o (IF year_list(recs) # <<>>
             /\ Cardinality({year_list(recs)[i] : i \in 1..Len(year_list(recs))}) >= 2
          THEN <<Chart("years", "years_hist.png")>> ELSE <<>>)
      \o (IF needs_review_counter(recs) # Counter
          THEN <<Chart("needs_review", "needs_review_bar.png")>> ELSE <<>>)

\* The records the extraction stage hands over.
GoodUrl == <<"a", ":", "/", "/", "A">>
BadUrl == <<"/", "/", "[">>
Records ==
    [sources_mentions : {None, Some(<<"", "WHO">>)},
     dataset_candidates : {Some(<<>>), Some(<<"data.csv">>)},
     urls : {Some(<<>>), Some(<<BadUrl>>), Some(<<GoodUrl>>)},
     time_mentions : {Some(<<>>), Some(<< <<"1", "9", "9", "9">> >>),
                      Some(<< <<"x", " ", "2", "0", "2", "0", "-", "1", "9", "9", "9">> >>)},
     needs_review : BOOLEAN,
     has_declaration : BOOLEAN,
     availability_section_found : BOOLEAN]

VizInit ==
    /\ pc = "viz_start"
    /\ records \in SeqUpTo(Records, MaxRecords)
    /\ plt = None /\ charts = <<>> /\ out_dir = FALSE
    /\ NormIdle /\ SampleIdle /\ PdfIdle /\ DomainIdle

\* save_visualizations(records, out_dir): the directory is made, matplotlib
\* is imported or found missing, and the charts are saved.
SaveVisualizations ==
    /\ pc = "viz_start"
    /\ out_dir' = TRUE
    /\ \E pyplot \in {None, Some("matplotlib.pyplot")} :
          /\ plt' = pyplot
          /\ charts' = save_visualizations(records, pyplot)
    /\ pc' = "viz_done"
    /\ UNCHANGED <<records, normVars, sampleVars, pdfVars, domainVars>>

VizNext == SaveVisualizations
SpecViz == VizInit /\ [][VizNext]_vars

\* Whether the counter (or list) behind a metric is non-empty.
Metrics == {"sources", "dataset_candidates", "url_domains", "urls_per_file",
            "years", "needs_review", "has_declaration",
            "availability_section_found"}
NonEmpty(metric) ==
    CASE metric = "sources" -> source_counter(records) # Counter
      [] metric = "dataset_candidates" -> dataset_counter(records) # Counter
      [] metric = "url_domains" -> domain_counter(records) # Counter
      [] metric = "urls_per_file" -> url_count_list(records) # <<>>
      [] metric = "years" -> year_list(records) # <<>>
      [] metric = "needs_review" -> needs_review_counter(records) # Counter
      [] metric = "has_declaration" -> has_decl_counter(records) # Counter
      [] metric = "availability_section_found" -> has_avail_counter(records) # Counter
ChartsOf(metric) == {i \in 1..Len(charts) : charts[i].metric = metric}

\* C8: with plotting available, exactly one chart is rendered for each
\* non-empty counter among sources, dataset candidates, URL domains, URL count
\* per file, mentioned years and the three boolean flags, and a chart is
\* skipped only if its counter is empty.
C8_OneChartPerNonEmptyCounter ==
    (pc = "viz_done" /\ plt # None) =>
        \A m \in Metrics :
            Cardinality(ChartsOf(m)) = IF NonEmpty(m) THEN 1 ELSE 0

(***************************************************************************)
(* The script as a whole: any one of its functions, called on its own.     *)
(***************************************************************************)
Init == NormInit \/ SampleInit \/ PdfInit \/ DomainInit \/ VizInit
Next == NormNext \/ SampleNext \/ PdfNext \/ DomainNext \/ VizNext
Spec == Init /\ [][Next]_vars

====
